---- MODULE Spec2Model ----
(***************************************************************************)
(* Model of the occupancy pipeline of src/src/utils/parkingDetection.ts:   *)
(* region normalisation, the heuristic classifier, the verification gate,  *)
(* the temporal stabiliser and the module-level state they share.          *)
(*                                                                         *)
(* Numbers are fixed point.  Features, stability scores, oracle scores and *)
(* normalised coordinates are in hundredths (1.0 is 100); pixel            *)
(* coordinates are in hundredths of a pixel; confidences are in            *)
(* ten-thousandths (1.0 is 10000), truncated; the shadow score is in       *)
(* 4500ths, which is exact for features in hundredths; times are in ms.    *)
(* Pixel-level feature extraction is the raster accessor's work: a frame   *)
(* gives every region a crop with known feature values (Crops).            *)
(***************************************************************************)
EXTENDS Integers, Sequences, FiniteSets, TLC

(* ------------------------------ CONFIG ------------------------------ *)
MIN_CONSECUTIVE_FRAMES == 3
SHADOW_THRESHOLD == 45
OCCUPANCY_THRESHOLD == 50
MODEL_VERIFICATION_INTERVAL == 3
EDGE_DENSITY_THRESHOLD == 15
TEXTURE_COMPLEXITY_THRESHOLD == 25
COLOR_VARIANCE_THRESHOLD == 25
MIN_VEHICLE_CONFIDENCE == 60
PARKING_SPACE_MIN_SIZE == 20
MAX_FRAME_SKIP == 0
MOTION_INFLUENCE == 35
UNCERTAINTY_THRESHOLD == 35
TARGET_WIDTH == 1280
TARGET_HEIGHT == 720
CONFIDENCE_BOOST == 120
MAX_MODEL_LOAD_ATTEMPTS == 3

(* ------------------------------ bounds ------------------------------ *)
\* detectParkingSpaces calls in one behaviour of Spec
MaxCalls == 2
\* detectParkingSpaces calls in one behaviour of SpecChain
MaxChainCalls == 6
\* distinct frames the source can show
NFrames == 3

(* ----------------------------- arithmetic --------------------------- *)
Max(a, b) == IF a >= b THEN a ELSE b
Min(a, b) == IF a <= b THEN a ELSE b
Abs(a) == IF a >= 0 THEN a ELSE 0 - a

\* Math.floor and Math.ceil of a coordinate in hundredths, in whole pixels
Floor100(x) == x \div 100
Ceil100(x) == 0 - ((0 - x) \div 100)
\* ToInt32 of a coordinate in hundredths: truncation toward zero
Trunc100(x) == IF x >= 0 THEN x \div 100 ELSE 0 - ((0 - x) \div 100)

RECURSIVE SeqMin(_)
SeqMin(s) == IF Len(s) = 1 THEN s[1] ELSE Min(s[1], SeqMin(Tail(s)))
RECURSIVE SeqMax(_)
SeqMax(s) == IF Len(s) = 1 THEN s[1] ELSE Max(s[1], SeqMax(Tail(s)))
RECURSIVE Pow(_, _)
Pow(b, e) == IF e = 0 THEN 1 ELSE b * Pow(b, e - 1)

\* q[1]/q[2] > q[3]/q[4] for numerators >= 0 and denominators > 0, by the
\* continued fractions of the two sides, so that no cross product is formed
FracGreaterOf[q \in Nat \X Nat \X Nat \X Nat] ==
  LET qa == q[1] \div q[2]
      qc == q[3] \div q[4]
      ra == q[1] % q[2]
      rc == q[3] % q[4]
  IN  IF qa # qc THEN qa > qc
      ELSE IF ra = 0 THEN FALSE
      ELSE IF rc = 0 THEN TRUE
      ELSE FracGreaterOf[<<q[4], rc, q[2], ra>>]

FracGreater(a, b, c, d) == FracGreaterOf[<<a, b, c, d>>]

(* ------------------------------ regions ----------------------------- *)
Pt(x, y) == [x |-> x, y |-> y]
Rect(x0, y0, x1, y1) == <<Pt(x0, y0), Pt(x1, y0), Pt(x1, y1), Pt(x0, y1)>>

\* region.points.every(p => p.x >= 0 && p.x <= 1 && p.y >= 0 && p.y <= 1)
PointsNormalized(points) ==
  \A k \in 1..Len(points) :
    /\ points[k].x >= 0 /\ points[k].x <= 100
    /\ points[k].y >= 0 /\ points[k].y <= 100

\* the filter of detectParkingSpaces: a string id and at least 3 finite points
\* (a region without a string id is modelled by id = "")
IsValidRegion(region) == region.id # "" /\ Len(region.points) >= 3

ValidRegions(regs) == SelectSeq(regs, IsValidRegion)

getRegionBounds(points) ==
  LET xs == [k \in 1..Len(points) |-> points[k].x]
      ys == [k \in 1..Len(points) |-> points[k].y]
  IN  [minX |-> SeqMin(xs), minY |-> SeqMin(ys),
       maxX |-> SeqMax(xs), maxY |-> SeqMax(ys),
       width |-> SeqMax(xs) - SeqMin(xs),
       height |-> SeqMax(ys) - SeqMin(ys)]

\* the processing resolution: the source's aspect ratio fitted into the target
CanvasSize(ow, oh) ==
  IF Abs(TARGET_HEIGHT * ow - TARGET_WIDTH * oh) * 100 < TARGET_HEIGHT * oh
  THEN [width |-> TARGET_WIDTH, height |-> TARGET_HEIGHT]
  ELSE IF ow * TARGET_HEIGHT > TARGET_WIDTH * oh
  THEN [width |-> TARGET_WIDTH,
        height |-> (2 * TARGET_WIDTH * oh + ow) \div (2 * ow)]
  ELSE [width |-> (2 * TARGET_HEIGHT * ow + oh) \div (2 * oh),
        height |-> TARGET_HEIGHT]

\* validRegions.every(region => region.points.every(...))
AreRegionsNormalized(valid) ==
  \A i \in 1..Len(valid) : PointsNormalized(valid[i].points)

\* the points of one region in processing pixels (hundredths of a pixel)
ScalePoints(points, normalized, canvas, ow, oh) ==
  [k \in 1..Len(points) |->
     IF normalized
     THEN Pt(points[k].x * canvas.width, points[k].y * canvas.height)
     ELSE Pt((points[k].x * canvas.width) \div ow,
             (points[k].y * canvas.height) \div oh)]

\* bounds.width < PARKING_SPACE_MIN_SIZE || bounds.height < PARKING_SPACE_MIN_SIZE
TooSmall(bounds) ==
  \/ bounds.width < PARKING_SPACE_MIN_SIZE * 100
  \/ bounds.height < PARKING_SPACE_MIN_SIZE * 100

\* ctx.getImageData throws when the width or height it is given converts to 0
GetImageDataThrows(bounds, canvas) ==
  \/ Trunc100(Min(canvas.width * 100 - bounds.minX, bounds.width)) = 0
  \/ Trunc100(Min(canvas.height * 100 - bounds.minY, bounds.height)) = 0

\* a variant that hands out the points scaled to processing pixels
OutputScaledPoints(rawPoints, scaledPoints) == scaledPoints

\* the region points the output space carries: validRegions[index].points
OutputPoints(rawPoints, scaledPoints) == rawPoints

(* ------------------------- frames and crops ------------------------- *)
\* What feature extraction computes from the crop of a region, by kind of
\* crop: nc = non-zero coverage (normalizedCount), b = brightness,
\* ed = edge density, tc = texture complexity, cv = colour variance.
Crops ==
  << [nc |-> 90, b |-> 90, ed |-> 0,  tc |-> 0,  cv |-> 0],
     [nc |-> 5,  b |-> 50, ed |-> 0,  tc |-> 0,  cv |-> 0],
     [nc |-> 90, b |-> 50, ed |-> 20, tc |-> 30, cv |-> 0],
     [nc |-> 90, b |-> 50, ed |-> 20, tc |-> 0,  cv |-> 0] >>

\* the crop frame f shows in the region at position i
CropOf(f, i) == Crops[((f + i - 2) % Len(Crops)) + 1]

\* calculateEnhancedMotionScore: the share of pixels that changed between the
\* two frames; 0 without a previous frame (previousFrame = 0) and between
\* identical frames
calculateEnhancedMotionScore(f, prevFrame) ==
  IF prevFrame = 0 THEN 0 ELSE Min(100, 30 * Abs(f - prevFrame))

\* calculateEnhancedShadowScore, in 4500ths: each score is max(0, 1 - v/(T*1.5))
calculateEnhancedShadowScore(c) ==
  LET edgeScore == Max(0, 450 - (c.ed * 300) \div EDGE_DENSITY_THRESHOLD)
      textureScore == Max(0, 450 - (c.tc * 300) \div TEXTURE_COMPLEXITY_THRESHOLD)
      colorScore == Max(0, 450 - (c.cv * 300) \div COLOR_VARIANCE_THRESHOLD)
      brightnessScore == Max(0, 450 - c.b * 9)
  IN  edgeScore * 4 + textureScore * 3 + colorScore * 2 + brightnessScore

\* shadowScore < CONFIG.SHADOW_THRESHOLD
IsShadow(shadowScore) == shadowScore < SHADOW_THRESHOLD * 45

\* calculateDynamicThreshold, in millionths
calculateDynamicThreshold(c) == OCCUPANCY_THRESHOLD * (150 - c.b) * (100 + c.cv)

\* motionScore > CONFIG.MOTION_INFLUENCE * stabilityScore
HasMotion(motion, stability) == motion * 100 > MOTION_INFLUENCE * stability

\* the multi-factor occupancy score, in millionths
OccupancyScore(c, motion, stability) ==
  100 * ( c.nc * 35
        + (IF c.tc > TEXTURE_COMPLEXITY_THRESHOLD THEN 2500 ELSE 0)
        + (IF c.ed > EDGE_DENSITY_THRESHOLD THEN 2500 ELSE 0)
        + (IF c.cv > COLOR_VARIANCE_THRESHOLD THEN 1000 ELSE 0)
        + (IF HasMotion(motion, stability) THEN 500 ELSE 0) )

\* a variant of the decision without the shadow test
OccupiedWithoutShadowTest(c, motion, stability) ==
  OccupancyScore(c, motion, stability) > calculateDynamicThreshold(c)

\* isOccupied = !isShadow && occupancyScore > dynamicThreshold
HeuristicIsOccupied(c, motion, stability) ==
  /\ ~IsShadow(calculateEnhancedShadowScore(c))
  /\ OccupancyScore(c, motion, stability) > calculateDynamicThreshold(c)

ErrorMargin(c, motion, stability) ==
  Abs(OccupancyScore(c, motion, stability) - calculateDynamicThreshold(c))

\* Math.min(1, baseConfidence * (1 + 0.2 * motionScore) * Math.max(0.7, stabilityScore))
HeuristicConfidence(c, motion, stability) ==
  LET base == IF ~IsShadow(calculateEnhancedShadowScore(c))
              THEN Max(5000, (1000000 - ErrorMargin(c, motion, stability)) \div 100)
              ELSE 3000
      withMotion == (base * (1000 + 2 * motion)) \div 1000
  IN  Min(10000, (withMotion * Max(70, stability)) \div 100)

(* ------------------------------ spaces ------------------------------ *)
HasSpace(spaces, id) == \E k \in 1..Len(spaces) : spaces[k].id = id

\* previousSpaces.find(s => s.id === id): the first space with that id
FindSpace(spaces, id) ==
  spaces[CHOOSE k \in 1..Len(spaces) :
           /\ spaces[k].id = id
           /\ \A j \in 1..(k - 1) : spaces[j].id # id]

\* previousSpace?.features.stabilityScore || 0.5
CarriedStability(prevSpaces, id) ==
  IF HasSpace(prevSpaces, id) /\ FindSpace(prevSpaces, id).features.stabilityScore # 0
  THEN FindSpace(prevSpaces, id).features.stabilityScore
  ELSE 50

\* previousSpace?.stateHistory || []
CarriedHistory(prevSpaces, id) ==
  IF HasSpace(prevSpaces, id) THEN FindSpace(prevSpaces, id).stateHistory ELSE <<>>

createEmptySpace(index, region, t) ==
  [id |-> index, region |-> region, isOccupied |-> FALSE, confidence |-> 0,
   lastStateChange |-> t, stateHistory |-> <<>>, vehicleType |-> "none",
   features |-> [heatmapScore |-> 0, brightness |-> 0, edgeDensity |-> 0,
                 textureComplexity |-> 0, colorVariance |-> 0, motionScore |-> 0,
                 shadowScore |-> 0, stabilityScore |-> 50]]

\* the space the heuristic classifier builds for a region
HeuristicSpace(index, region, c, motion, prevSpaces, t) ==
  LET stability == CarriedStability(prevSpaces, index)
  IN  [id |-> index, region |-> region,
       isOccupied |-> HeuristicIsOccupied(c, motion, stability),
       confidence |-> HeuristicConfidence(c, motion, stability),
       lastStateChange |-> t,
       stateHistory |-> CarriedHistory(prevSpaces, index),
       vehicleType |-> "none",
       features |-> [heatmapScore |-> c.nc, brightness |-> c.b,
                     edgeDensity |-> c.ed, textureComplexity |-> c.tc,
                     colorVariance |-> c.cv, motionScore |-> motion,
                     shadowScore |-> calculateEnhancedShadowScore(c),
                     stabilityScore |-> stability]]

(* ------------------------- verification gate ------------------------ *)
\* settings.useAdaptiveVerification and the four triggers (modelsLoaded is
\* checked by the caller of ShouldVerify)
ShouldVerify(adaptive, count, space, c, motion) ==
  /\ adaptive
  /\ \/ count % MODEL_VERIFICATION_INTERVAL = 0
     \/ space.isOccupied /\ space.confidence < 8500
     \/ ~space.isOccupied /\ space.confidence > UNCERTAINTY_THRESHOLD * 80
     \/ /\ motion > 25
        /\ ErrorMargin(c, motion, space.features.stabilityScore) < 100000

\* class names that contain one of the detector's vehicle words
DetectorVehicleClasses == {"car", "truck", "bus", "motorcycle"}
\* class names that contain one of the classifier's vehicle keywords
ClassifierVehicleNames == {"sports car", "minivan", "police van"}

\* what the two oracles answer for one crop
OracleThrows == [throws |-> TRUE, boxes |-> <<>>, labels |-> <<>>]
OracleNothing == [throws |-> FALSE, boxes |-> <<>>, labels |-> <<>>]
OracleCar ==
  [throws |-> FALSE, boxes |-> <<[class |-> "car", score |-> 90]>>,
   labels |-> <<>>]
OracleTruck ==
  [throws |-> FALSE,
   boxes |-> <<[class |-> "person", score |-> 95],
               [class |-> "truck", score |-> 70],
               [class |-> "car", score |-> 65]>>,
   labels |-> <<>>]
OracleLabel ==
  [throws |-> FALSE, boxes |-> <<[class |-> "car", score |-> 55]>>,
   labels |-> <<[className |-> "sports car", probability |-> 70],
                [className |-> "racer", probability |-> 20]>>]

\* the oracle is not asked
NoOracle == OracleNothing

VehiclePredictions(boxes) ==
  SelectSeq(boxes, LAMBDA p : p.class \in DetectorVehicleClasses
                              /\ p.score > MIN_VEHICLE_CONFIDENCE)

\* reduce((best, current) => current.score > best.score ? current : best)
RECURSIVE BestBox(_)
BestBox(boxes) ==
  IF Len(boxes) = 1 THEN boxes[1]
  ELSE LET best == BestBox(SubSeq(boxes, 1, Len(boxes) - 1))
           current == boxes[Len(boxes)]
       IN  IF current.score > best.score THEN current ELSE best

RECURSIVE BestLabel(_)
BestLabel(labels) ==
  IF Len(labels) = 1 THEN labels[1]
  ELSE LET best == BestLabel(SubSeq(labels, 1, Len(labels) - 1))
           current == labels[Len(labels)]
       IN  IF current.probability > best.probability THEN current ELSE best

\* the rectangle verifyWithModel crops, from the region the space carries
VerifyCrop(points, canvas) ==
  LET scaled == IF PointsNormalized(points)
                THEN [k \in 1..Len(points) |->
                        Pt(points[k].x * canvas.width, points[k].y * canvas.height)]
                ELSE points
      bounds == getRegionBounds(scaled)
      minX == Max(0, Floor100(bounds.minX))
      minY == Max(0, Floor100(bounds.minY))
      maxX == Min(canvas.width, Ceil100(bounds.maxX))
      maxY == Min(canvas.height, Ceil100(bounds.maxY))
  IN  [minX |-> minX, minY |-> minY, width |-> maxX - minX, height |-> maxY - minY]

CropTooSmall(crop) == crop.height < 10 \/ crop.width < 10

\* confidence of a space the detector or the classifier confirms
MergedConfidence(score) == score * CONFIDENCE_BOOST

\* which branch verifyWithModel takes
VerifyOutcome(loaded, space, canvas, resp) ==
  IF ~loaded THEN "nomodel"
  ELSE IF CropTooSmall(VerifyCrop(space.region.points, canvas)) THEN "cropsmall"
  ELSE IF resp.throws THEN "threw"
  ELSE IF Len(VehiclePredictions(resp.boxes)) > 0 THEN "detected"
  ELSE IF /\ Len(resp.labels) > 0
          /\ \E k \in 1..Len(resp.labels) :
               /\ resp.labels[k].className \in ClassifierVehicleNames
               /\ resp.labels[k].probability > 50
       THEN "classified"
  ELSE "unconfirmed"

OracleInvoked(outcome) ==
  outcome \in {"threw", "detected", "classified", "unconfirmed"}

verifyWithModel(loaded, space, canvas, resp) ==
  LET outcome == VerifyOutcome(loaded, space, canvas, resp)
      stab == space.features.stabilityScore
  IN  CASE outcome = "detected" ->
             LET best == BestBox(VehiclePredictions(resp.boxes))
             IN  [space EXCEPT !.isOccupied = TRUE,
                               !.confidence = MergedConfidence(best.score),
                               !.vehicleType = best.class,
                               !.features.heatmapScore = 100,
                               !.features.stabilityScore = Min(100, stab + 20)]
        [] outcome = "classified" ->
             LET best == BestLabel(resp.labels)
             IN  [space EXCEPT !.isOccupied = TRUE,
                               !.confidence = MergedConfidence(best.probability),
                               !.vehicleType = best.className,
                               !.features.heatmapScore = 100,
                               !.features.stabilityScore = Min(100, stab + 10)]
        [] outcome = "unconfirmed" ->
             [space EXCEPT !.features.stabilityScore = Max(0, stab - 10)]
        [] OTHER -> space

(* ------------------------ temporal stabiliser ----------------------- *)
\* a variant with the limit of the older applyTemporalSmoothing
HistoryOverflowAtMinFrames(len) == len > MIN_CONSECUTIVE_FRAMES

\* stateHistory.length > CONFIG.MIN_CONSECUTIVE_FRAMES * 1.5
HistoryOverflow(len) == len * 2 > MIN_CONSECUTIVE_FRAMES * 3

\* [...previousSpace.stateHistory, space.isOccupied], shifted when too long
NextHistory(prevHistory, state) ==
  LET pushed == Append(prevHistory, state)
  IN  IF HistoryOverflow(Len(pushed)) THEN Tail(pushed) ELSE pushed

\* Math.pow(0.85, length - 1 - i) for the entry at position k of n, times 20^(n-1)
Weight(k, n) == Pow(17, n - k) * Pow(20, k - 1)

RECURSIVE WeightSum(_, _, _)
WeightSum(h, k, onlyTrue) ==
  IF k > Len(h) THEN 0
  ELSE (IF h[k] \/ ~onlyTrue THEN Weight(k, Len(h)) ELSE 0)
       + WeightSum(h, k + 1, onlyTrue)

\* featureConsistency, in thousandths
FeatureConsistency(cur, prev) ==
  Min(1000,
      3 * (100 - Abs(cur.edgeDensity - prev.edgeDensity))
    + 3 * (100 - Abs(cur.textureComplexity - prev.textureComplexity))
    + 2 * (100 - Abs(cur.colorVariance - prev.colorVariance))
    + 2 * (100 - Abs(cur.brightness - prev.brightness)))

\* stabilityFactor = 0.7 * stabilityScore + 0.3 * featureConsistency, in ten-thousandths
StabilityFactor(cur, prev) ==
  70 * cur.stabilityScore + 3 * FeatureConsistency(cur, prev)

\* a variant that compares the average with 1.65 * stabilityFactor
SmoothedStateAboveUnit(history, stabilityFactor) ==
  FracGreater(WeightSum(history, 1, TRUE), WeightSum(history, 1, FALSE),
              165 * stabilityFactor, 1000000)

\* newState = weightedAverage > 0.65 * stabilityFactor
SmoothedState(history, stabilityFactor) ==
  FracGreater(WeightSum(history, 1, TRUE), WeightSum(history, 1, FALSE),
              65 * stabilityFactor, 1000000)

\* featureConfidence, in thousandths
FeatureConfidence(cur) ==
  Min(1000,
      (IF cur.edgeDensity > EDGE_DENSITY_THRESHOLD THEN 12 ELSE 8)
    * (IF cur.textureComplexity > TEXTURE_COMPLEXITY_THRESHOLD THEN 12 ELSE 8)
    * (IF cur.colorVariance > COLOR_VARIANCE_THRESHOLD THEN 11 ELSE 9))

\* Math.min(1, weightedAverage * stabilityFactor * featureConfidence)
SmoothedConfidence(history, stabilityFactor, featureConfidence) ==
  LET average == (WeightSum(history, 1, TRUE) * 10000)
                   \div WeightSum(history, 1, FALSE)
  IN  Min(10000, (((average * stabilityFactor) \div 10000) * featureConfidence)
                   \div 1000)

\* a variant that leaves the score alone when the state flips
NextStabilityWithoutPenalty(stability, held) ==
  IF held THEN Min(100, stability + 8) ELSE stability

\* the stability score for the next round
NextStability(stability, held) ==
  IF held THEN Min(100, stability + 8) ELSE Max(0, stability - 15)

SmoothSpace(space, previousSpace, t) ==
  LET history == NextHistory(previousSpace.stateHistory, space.isOccupied)
      factor == StabilityFactor(space.features, previousSpace.features)
      newState == SmoothedState(history, factor)
  IN  [space EXCEPT
         !.isOccupied = newState,
         !.stateHistory = history,
         !.lastStateChange = IF newState = previousSpace.isOccupied
                             THEN previousSpace.lastStateChange ELSE t,
         !.confidence = SmoothedConfidence(history, factor,
                                           FeatureConfidence(space.features)),
         !.features.stabilityScore =
            NextStability(space.features.stabilityScore,
                          newState = previousSpace.isOccupied)]

\* the early return of applyEnhancedTemporalSmoothing
SmoothingApplies(prevSpaces, useTemporalSmoothing) ==
  Len(prevSpaces) # 0 /\ useTemporalSmoothing

applyEnhancedTemporalSmoothing(currentSpaces, prevSpaces, useTemporalSmoothing, t) ==
  IF ~SmoothingApplies(prevSpaces, useTemporalSmoothing) THEN currentSpaces
  ELSE [k \in 1..Len(currentSpaces) |->
          IF HasSpace(prevSpaces, currentSpaces[k].id)
          THEN SmoothSpace(currentSpaces[k],
                           FindSpace(prevSpaces, currentSpaces[k].id), t)
          ELSE currentSpaces[k]]

(* ------------------------------- state ------------------------------ *)
VARIABLES
  objectDetector,      \* TRUE when the detection oracle is loaded
  featureExtractor,    \* TRUE when the classification oracle is loaded
  isModelLoading,
  modelLoadingPromise, \* the index in loads of the promise it holds, 0 for null
  modelLoadAttempts,
  frameCount,
  lastFrameTime,
  previousFrame,       \* the frame of the snapshot, 0 for null
  settings,
  now,                 \* Date.now()
  source,              \* intrinsic size of the caller's image or video
  regions,             \* the caller's region list
  previousSpacesRef,   \* the spaces the caller holds from its last result
  calls,               \* detectParkingSpaces calls made so far
  call,                \* the latest call: its inputs, intermediate and final spaces
  firstCall,           \* the first call that processed a frame
  processedCounts,     \* frameCount in the latest calls that processed a frame
  page,                \* the live-detection page: its refs, timers and calls
  loads,               \* the model loads whose fetch is running, by promise
  loadsStarted,        \* loads started since the module loaded or cleanup() ran
  tasks,               \* the detectParkingSpaces calls suspended at an await
  finished,            \* the calls that returned or threw in the latest step
  released             \* cleanup() ran and no call was made since

\* the state of the loads in flight and of the calls suspended on them
loadVars == <<isModelLoading, modelLoadingPromise, loads, loadsStarted, tasks,
              finished, released>>

vars == <<objectDetector, featureExtractor, modelLoadAttempts, frameCount,
          lastFrameTime, previousFrame, settings, now, source, regions,
          previousSpacesRef, calls, call, firstCall, isModelLoading,
          modelLoadingPromise, loads, loadsStarted, tasks, finished, released,
          processedCounts, page>>

Frames == 1..NFrames
Delays == {20, 40}
SourceKinds == {"null", "live", "ended", "nodims"}

NormalizedBig == [id |-> "a", points |-> Rect(10, 10, 40, 40), type |-> "rectangle"]
NormalizedSmall == [id |-> "b", points |-> Rect(50, 50, 51, 52), type |-> "rectangle"]
NormalizedWide == [id |-> "e", points |-> Rect(50, 50, 90, 90), type |-> "rectangle"]
PixelBig ==
  [id |-> "c", points |-> Rect(10000, 10000, 30000, 30000), type |-> "rectangle"]
TwoPoints ==
  [id |-> "d", points |-> <<Pt(10, 10), Pt(40, 40)>>, type |-> "rectangle"]
\* a region whose type is none of the two the Region interface declares
CircleTyped == [id |-> "f", points |-> Rect(10, 10, 40, 40), type |-> "circle"]

HD == [width |-> 1280, height |-> 720]
VGA == [width |-> 640, height |-> 480]

\* the caller's source and region list
Scenarios ==
  { [source |-> HD,  regions |-> <<NormalizedBig, NormalizedSmall>>],
    [source |-> VGA, regions |-> <<NormalizedBig, NormalizedWide>>],
    [source |-> VGA, regions |-> <<PixelBig>>],
    [source |-> HD,  regions |-> <<NormalizedBig, PixelBig>>],
    [source |-> HD,  regions |-> <<TwoPoints, NormalizedBig>>],
    [source |-> HD,  regions |-> <<CircleTyped>>] }

ChainScenarios == { [source |-> HD, regions |-> <<NormalizedBig>>] }

DefaultSettings ==
  [showDebugInfo |-> FALSE, useMotionDetection |-> TRUE,
   useAdvancedFeatures |-> TRUE, useModelVerification |-> TRUE,
   useTemporalSmoothing |-> TRUE, useAdaptiveVerification |-> TRUE]

NoCall ==
  [kind |-> "none", frame |-> 0, prev |-> <<>>, settings |-> DefaultSettings,
   count |-> 0, loaded |-> FALSE, path |-> <<>>, heur |-> <<>>,
   resp |-> <<>>, outcome |-> <<>>, gated |-> <<>>, spaces |-> <<>>]

\* the live-detection page before detection is started, in camera mode
NoPage ==
  [isStreaming |-> FALSE, processing |-> FALSE, interval |-> FALSE,
   timers |-> 0, pending |-> 0, ready |-> FALSE]

\* modelLoadingPromise = new Promise(...): the promise and the fetch behind it
NewLoad == [promise |-> "pending"]

NoLoads == [id \in {} |-> NewLoad]

InitWith(scenarios) ==
  /\ objectDetector = FALSE
  /\ featureExtractor = FALSE
  /\ modelLoadAttempts = 0
  /\ frameCount = 0
  /\ lastFrameTime = 0
  /\ previousFrame = 0
  /\ settings = DefaultSettings
  /\ now = 0
  /\ \E sc \in scenarios : source = sc.source /\ regions = sc.regions
  /\ previousSpacesRef = <<>>
  /\ calls = 0
  /\ call = NoCall
  /\ firstCall = NoCall
  /\ processedCounts = <<>>
  /\ page = NoPage
  /\ isModelLoading = FALSE
  /\ modelLoadingPromise = 0
  /\ loads = NoLoads
  /\ loadsStarted = 0
  /\ tasks = <<>>
  /\ finished = <<>>
  /\ released = FALSE

(* ----------------------------- loadModels --------------------------- *)
\* One loadModels() call that runs to completion; ok says whether the fetch of
\* the two models succeeds when a load is attempted.
LoadModelsOutcome(ok) ==
  IF objectDetector /\ featureExtractor
  THEN [result |-> TRUE, detector |-> objectDetector,
        extractor |-> featureExtractor, attempts |-> modelLoadAttempts]
  ELSE IF modelLoadAttempts >= MAX_MODEL_LOAD_ATTEMPTS
  THEN [result |-> FALSE, detector |-> objectDetector,
        extractor |-> featureExtractor, attempts |-> modelLoadAttempts]
  ELSE [result |-> ok, detector |-> ok, extractor |-> ok,
        attempts |-> modelLoadAttempts + 1]

LoadModels ==
  \E ok \in BOOLEAN :
    /\ calls < MaxCalls
    /\ ~(objectDetector /\ featureExtractor)
    /\ modelLoadAttempts < MAX_MODEL_LOAD_ATTEMPTS
    /\ objectDetector' = LoadModelsOutcome(ok).detector
    /\ featureExtractor' = LoadModelsOutcome(ok).extractor
    /\ modelLoadAttempts' = LoadModelsOutcome(ok).attempts
    /\ released' = FALSE
    /\ UNCHANGED <<isModelLoading, modelLoadingPromise, loads, loadsStarted,
                   tasks, finished>>
    /\ UNCHANGED <<frameCount, lastFrameTime, previousFrame, settings, now,
                   source, regions, previousSpacesRef, calls, call, firstCall, processedCounts, page>>

(* ------------------------ detectParkingSpaces ----------------------- *)
\* the counters of the latest MODEL_VERIFICATION_INTERVAL calls that reached
\* the per-region pipeline, the newest last
LatestCounts(counts, count) ==
  IF Len(counts) < MODEL_VERIFICATION_INTERVAL THEN Append(counts, count)
  ELSE Append(Tail(counts), count)

\* frameCount % CONFIG.MAX_FRAME_SKIP !== 0; the remainder by 0 is NaN
RemainderNotZero(a, b) == IF b = 0 THEN TRUE ELSE a % b # 0

\* timeDiff < 1000 / 30 && frameCount > 0 && frameCount % MAX_FRAME_SKIP !== 0
FrameSkipped(timeDiff, count) ==
  timeDiff * 30 < 1000 /\ count > 0 /\ RemainderNotZero(count, MAX_FRAME_SKIP)

\* what the per-region pipeline computes before the oracle is asked
RegionPlan(valid, f, prevArg, t, loaded, count, motion) ==
  LET canvas == CanvasSize(source.width, source.height)
      normalized == AreRegionsNormalized(valid)
  IN  [i \in 1..Len(valid) |->
        LET scaled == ScalePoints(valid[i].points, normalized, canvas,
                                  source.width, source.height)
            bounds == getRegionBounds(scaled)
            region == [valid[i] EXCEPT
                         !.points = OutputPoints(valid[i].points, scaled)]
            path == IF TooSmall(bounds) THEN "small"
                    ELSE IF GetImageDataThrows(bounds, canvas) THEN "error"
                    ELSE "heuristic"
            space == IF path = "heuristic"
                     THEN HeuristicSpace(i - 1, region, CropOf(f, i), motion,
                                         prevArg, t)
                     ELSE createEmptySpace(i - 1, region, t)
            verify == /\ path = "heuristic"
                      /\ loaded
                      /\ ShouldVerify(settings.useAdaptiveVerification, count,
                                      space, CropOf(f, i), motion)
        IN  [path |-> path, space |-> space, verify |-> verify,
             ask |-> verify /\ ~CropTooSmall(VerifyCrop(region.points, canvas))]]

DetectParkingSpaces(srcKind, f, prevArg, dt, loadOk, oracles, limit) ==
  LET t == now + dt
      valid == ValidRegions(regions)
      load == LoadModelsOutcome(loadOk)
      loaded == load.detector /\ load.extractor
      count == frameCount + 1
      motion == IF settings.useMotionDetection
                THEN calculateEnhancedMotionScore(f, previousFrame) ELSE 0
      canvas == CanvasSize(source.width, source.height)
      base == [NoCall EXCEPT !.prev = prevArg, !.settings = settings]
  IN
  /\ calls < limit
  /\ calls' = calls + 1
  /\ now' = t
  /\ released' = FALSE
  /\ UNCHANGED <<settings, source, regions, isModelLoading,
                 modelLoadingPromise, loads, loadsStarted, tasks, finished>>
  /\ IF srcKind = "null"
     THEN \* throw new Error('Invalid image source')
          /\ call' = [base EXCEPT !.kind = "rejected"]
          /\ UNCHANGED <<objectDetector, featureExtractor, modelLoadAttempts,
                         frameCount, lastFrameTime, previousFrame,
                         previousSpacesRef, firstCall, processedCounts, page>>
     ELSE
     /\ lastFrameTime' = t
     /\ frameCount' = count
     /\ IF FrameSkipped(t - lastFrameTime, frameCount)
        THEN \* the frame-skip return: previousSpaces as they are
             /\ call' = [base EXCEPT !.kind = "skipped", !.count = count,
                                     !.frame = f, !.spaces = prevArg]
             /\ previousSpacesRef' = prevArg
             /\ UNCHANGED <<objectDetector, featureExtractor,
                            modelLoadAttempts, previousFrame, firstCall, processedCounts, page>>
        ELSE
        /\ objectDetector' = load.detector
        /\ featureExtractor' = load.extractor
        /\ modelLoadAttempts' = load.attempts
        /\ CASE srcKind = "ended" ->
                  /\ call' = [base EXCEPT !.kind = "ended", !.count = count,
                                          !.loaded = load.result,
                                          !.spaces = prevArg]
                  /\ previousSpacesRef' = prevArg
                  /\ UNCHANGED <<previousFrame, firstCall, processedCounts, page>>
             [] srcKind = "nodims" ->
                  \* throw new Error('Video has invalid dimensions')
                  /\ call' = [base EXCEPT !.kind = "rejected", !.count = count,
                                          !.loaded = load.result]
                  /\ UNCHANGED <<previousFrame, previousSpacesRef, firstCall, processedCounts, page>>
             [] OTHER ->
                  \E plan \in {RegionPlan(valid, f, prevArg, t, load.result,
                                          count, motion)} :
                  \E oracle \in [{i \in 1..Len(valid) : plan[i].ask} -> oracles] :
                  \E resp \in {[i \in 1..Len(valid) |->
                                  IF plan[i].ask THEN oracle[i] ELSE NoOracle]} :
                  \E heur \in {[i \in 1..Len(valid) |-> plan[i].space]} :
                  \E outcome \in {[i \in 1..Len(valid) |->
                                     IF plan[i].verify
                                     THEN VerifyOutcome(loaded, heur[i], canvas,
                                                        resp[i])
                                     ELSE "none"]} :
                  \E gated \in {[i \in 1..Len(valid) |->
                                   IF plan[i].verify
                                   THEN verifyWithModel(loaded, heur[i], canvas,
                                                        resp[i])
                                   ELSE heur[i]]} :
                  \E spaces \in {applyEnhancedTemporalSmoothing(
                                   gated, prevArg, settings.useTemporalSmoothing,
                                   t)} :
                  \E done \in {[base EXCEPT
                                  !.kind = "processed", !.count = count,
                                  !.frame = f, !.loaded = load.result,
                                  !.path = [i \in 1..Len(valid) |-> plan[i].path],
                                  !.heur = heur, !.resp = resp,
                                  !.outcome = outcome,
                                  !.gated = gated, !.spaces = spaces]} :
                    /\ previousFrame' = f
                    /\ call' = done
                    /\ previousSpacesRef' = spaces
                    /\ firstCall' = IF firstCall.kind = "none" THEN done
                                    ELSE firstCall
                    /\ processedCounts' = LatestCounts(processedCounts, count)
                    /\ UNCHANGED page

\* a call with its inputs drawn from the given sets
DetectFrom(kinds, frames, prevs, delays, loadOks, oracles, limit) ==
  \E srcKind \in kinds, f \in frames, usePrev \in prevs, dt \in delays,
     loadOk \in loadOks :
    DetectParkingSpaces(srcKind, f,
                        IF usePrev THEN previousSpacesRef ELSE <<>>,
                        dt, loadOk, oracles, limit)

(* ------------------------ cleanup, updateSettings ------------------- *)
\* a snapshot that is disposed while previousFrame keeps referring to it: a
\* disposed tensor of frame n is written -n
DisposedSnapshotKept(snapshot) == 0 - snapshot

\* previousFrame once cleanup() disposed the snapshot: the reference is
\* dropped with it
DisposedSnapshot(snapshot) == 0

cleanup ==
  /\ calls < MaxCalls
  /\ previousFrame # 0 \/ objectDetector \/ featureExtractor
       \/ modelLoadAttempts # 0
  /\ previousFrame' = DisposedSnapshot(previousFrame)
  /\ objectDetector' = FALSE
  /\ featureExtractor' = FALSE
  /\ modelLoadAttempts' = 0
  /\ isModelLoading' = FALSE
  /\ modelLoadingPromise' = 0
  /\ released' = TRUE
  /\ UNCHANGED <<frameCount, lastFrameTime, settings, now, source, regions,
                 previousSpacesRef, calls, call, firstCall, processedCounts, page, loads,
                 loadsStarted, tasks, finished>>

\* the settings objects the caller passes: the defaults, or one flag off
SettingsChoices ==
  { DefaultSettings,
    [DefaultSettings EXCEPT !.useMotionDetection = FALSE],
    [DefaultSettings EXCEPT !.useModelVerification = FALSE],
    [DefaultSettings EXCEPT !.useTemporalSmoothing = FALSE],
    [DefaultSettings EXCEPT !.useAdaptiveVerification = FALSE] }

\* Object.assign(settings, newSettings)
updateSettings ==
  \E newSettings \in SettingsChoices :
    /\ calls < MaxCalls
    /\ newSettings # settings
    /\ settings' = newSettings
    /\ UNCHANGED <<objectDetector, featureExtractor, modelLoadAttempts,
                   frameCount, lastFrameTime, previousFrame, now, source,
                   regions, previousSpacesRef, calls, call, firstCall, processedCounts, page>>
    /\ UNCHANGED loadVars

(* --------------------------- specifications ------------------------- *)
\* The whole interface on one region: every kind of source, both delays, the
\* caller passing its last result or nothing, settings changes and cleanup.
SessionScenarios == { [source |-> HD, regions |-> <<NormalizedBig>>] }

Init == InitWith(SessionScenarios)

Detect ==
  DetectFrom(SourceKinds, Frames, BOOLEAN, Delays, BOOLEAN,
             {OracleNothing, OracleTruck}, MaxCalls)

Next == Detect \/ LoadModels \/ cleanup \/ updateSettings

Spec == Init /\ [][Next]_vars

\* Every region list on a live source, with the models loading at the first
\* call that gets that far.
InitRegions == InitWith(Scenarios)

DetectRegions ==
  DetectFrom({"live"}, Frames, BOOLEAN, Delays, {TRUE},
             {OracleThrows, OracleCar, OracleLabel}, MaxCalls)

NextRegions == DetectRegions

SpecRegions == InitRegions /\ [][NextRegions]_vars

\* One region on a live source; the caller passes each result to the next call.
InitChain == InitWith(ChainScenarios)

DetectChain ==
  DetectFrom({"live"}, Frames, {TRUE}, {40}, BOOLEAN,
             {OracleNothing, OracleCar}, MaxChainCalls)

NextChain == DetectChain

SpecChain == InitChain /\ [][NextChain]_vars

\* The frame counter: one region, the models loaded by the first call, live
\* frames and frames of a video that has ended, 20 ms or 40 ms apart.
MaxFrameCalls == 5

InitFrames == InitWith(ChainScenarios)

DetectFrames ==
  DetectFrom({"live", "ended"}, {1}, {TRUE}, Delays, {TRUE}, {OracleNothing},
             MaxFrameCalls)

NextFrames == DetectFrames

SpecFrames == InitFrames /\ [][NextFrames]_vars

(* ---------------- loads in flight and suspended calls --------------- *)
\* The calls above run to completion. Below, loadModels() and
\* detectParkingSpaces() stop at their awaits, so that cleanup(),
\* updateSettings() and other calls run in between.
MaxTasks == 2
MaxLoadCalls == 3

\* the name of the next promise: the least that no running load bears
FreshLoad == CHOOSE id \in 1..(Cardinality(DOMAIN loads) + 1) : id \notin DOMAIN loads

Flag(b) == IF b THEN "on" ELSE "off"

NoTask ==
  [pc |-> "rejected", kind |-> "none", frame |-> 0, prev |-> <<>>,
   settings |-> DefaultSettings, on |-> 0, starter |-> FALSE,
   exhausted |-> FALSE, retryDue |-> FALSE, loadFailed |-> FALSE,
   passedLoad |-> FALSE,
   loaded |-> FALSE,
   present |-> FALSE, count |-> 0, readDisposed |-> FALSE,
   usedMotion |-> "unread",
   usedAdaptive |-> "unread", usedSmoothing |-> "unread", verify |-> <<>>,
   asked |-> {}, heur |-> <<>>, outcome |-> <<>>, spaces |-> <<>>]

\* the read of settings.useTemporalSmoothing, which an empty previousSpaces
\* short-circuits
SmoothingRead(prevArg) ==
  IF Len(prevArg) = 0 THEN "unread" ELSE Flag(settings.useTemporalSmoothing)

\* loadModels() without the test of modelLoadAttempts
EnterLoadModelsWithoutLimit ==
  IF isModelLoading /\ modelLoadingPromise # 0
  THEN [on |-> modelLoadingPromise, starter |-> FALSE, result |-> FALSE]
  ELSE IF objectDetector /\ featureExtractor
  THEN [on |-> 0, starter |-> FALSE, result |-> TRUE]
  ELSE [on |-> FreshLoad, starter |-> TRUE, result |-> FALSE]

\* loadModels() up to its first await or its return
EnterLoadModels ==
  IF isModelLoading /\ modelLoadingPromise # 0
  THEN [on |-> modelLoadingPromise, starter |-> FALSE, result |-> FALSE]
  ELSE IF objectDetector /\ featureExtractor
  THEN [on |-> 0, starter |-> FALSE, result |-> TRUE]
  ELSE IF modelLoadAttempts >= MAX_MODEL_LOAD_ATTEMPTS
  THEN [on |-> 0, starter |-> FALSE, result |-> FALSE]
  ELSE [on |-> FreshLoad, starter |-> TRUE, result |-> FALSE]

\* loadModels() that reports success whatever became of the promise
LoadModelsReturnsTrue(starter, promise, present) == TRUE

\* what loadModels() returns to a caller that awaited the promise
LoadModelsReturns(starter, promise, present) ==
  IF promise = "rejected" THEN FALSE
  ELSE IF starter THEN TRUE
  ELSE present

\* the regions whose verification reaches the oracles: verifyWithModel()
\* returns at once while a singleton is null
Asked(plan, present) == {i \in 1..Len(plan) : plan[i].ask /\ present}

\* a call that ran the per-region pipeline on plan, up to the oracle calls
Planned(task, modelsLoaded, present, plan) ==
  [task EXCEPT
     !.kind = "processed", !.present = present,
     !.usedMotion = Flag(settings.useMotionDetection),
     !.usedAdaptive = IF /\ modelsLoaded
                         /\ \E i \in 1..Len(plan) : plan[i].path = "heuristic"
                      THEN Flag(settings.useAdaptiveVerification)
                      ELSE "unread",
     !.verify = [i \in 1..Len(plan) |-> plan[i].verify],
     !.asked = Asked(plan, present),
     !.heur = [i \in 1..Len(plan) |-> plan[i].space]]

\* the end of a call none of whose regions reaches the oracles
Unverified(seen, canvas) ==
  [seen EXCEPT
     !.pc = "done",
     !.outcome = [i \in 1..Len(seen.heur) |->
                    IF seen.verify[i]
                    THEN VerifyOutcome(seen.present, seen.heur[i], canvas,
                                       NoOracle)
                    ELSE "none"],
     !.usedSmoothing = SmoothingRead(seen.prev),
     !.spaces = applyEnhancedTemporalSmoothing(
                  seen.heur, seen.prev, settings.useTemporalSmoothing, now)]

\* detectParkingSpaces() from the return of loadModels() to the oracle calls,
\* or to its end when no region is verified
AfterLoad(task, modelsLoaded, count0, snapshot, present) ==
  LET base == [task EXCEPT !.passedLoad = TRUE, !.loaded = modelsLoaded,
                           !.count = count0 + 1]
  IN  CASE task.kind = "ended" ->
             [task |-> [base EXCEPT !.pc = "done", !.spaces = task.prev],
              frameCount |-> count0 + 1, previousFrame |-> snapshot]
        [] task.kind = "nodims" ->
             [task |-> [base EXCEPT !.pc = "rejected"],
              frameCount |-> count0 + 1, previousFrame |-> snapshot]
        [] OTHER ->
             [task |->
                CHOOSE next \in
                  { IF seen.asked # {} THEN [seen EXCEPT !.pc = "oracle"]
                    ELSE Unverified(seen,
                                    CanvasSize(source.width, source.height)) :
                    seen \in
                      { Planned([base EXCEPT
                                   !.readDisposed =
                                      /\ settings.useMotionDetection
                                      /\ snapshot < 0],
                                modelsLoaded, present,
                          RegionPlan(
                            ValidRegions(regions), task.frame, task.prev, now,
                            modelsLoaded, count0 + 1,
                            IF settings.useMotionDetection
                            THEN calculateEnhancedMotionScore(task.frame,
                                                              snapshot)
                            ELSE 0)) } } : TRUE,
              frameCount |-> count0 + 1, previousFrame |-> task.frame]

\* the caller's .then(): it keeps the spaces of a call that resolved
KeptSpaces(task, ref) == IF task.pc = "done" THEN task.spaces ELSE ref

\* the calls of a step that stay suspended, and those that ended
StillSuspended(ts) == SelectSeq(ts, LAMBDA x : x.pc \in {"load", "oracle"})
Ended(ts) == SelectSeq(ts, LAMBDA x : x.pc \in {"done", "rejected"})

\* the continuations of the calls that await promise id, in the order in which
\* they began to wait
RECURSIVE ResumeWaiting(_, _, _, _, _)
ResumeWaiting(k, id, promise, present, st) ==
  IF k > Len(st.tasks) THEN st
  ELSE IF st.tasks[k].pc = "load" /\ st.tasks[k].on = id
  THEN LET step == CHOOSE r \in {AfterLoad(
                            [st.tasks[k] EXCEPT
                               !.loadFailed = (promise = "rejected")],
                            LoadModelsReturns(st.tasks[k].starter, promise,
                                              present),
                            st.frameCount, st.previousFrame, present)} : TRUE
       IN  ResumeWaiting(k + 1, id, promise, present,
             [tasks |-> [st.tasks EXCEPT ![k] = step.task],
              frameCount |-> step.frameCount,
              previousFrame |-> step.previousFrame,
              ref |-> KeptSpaces(step.task, st.ref)])
  ELSE ResumeWaiting(k + 1, id, promise, present, st)

\* the promise of load id settles: every call that awaits it goes on
Settle(id, promise, present) ==
  \E st \in {ResumeWaiting(1, id, promise, present,
               [tasks |-> tasks, frameCount |-> frameCount,
                previousFrame |-> previousFrame,
                ref |-> previousSpacesRef])} :
    /\ tasks' = StillSuspended(st.tasks)
    /\ finished' = Ended(st.tasks)
    /\ frameCount' = st.frameCount
    /\ previousFrame' = st.previousFrame
    /\ previousSpacesRef' = st.ref

\* the loads that go on once load id ended
Without(id) == [i \in DOMAIN loads \ {id} |-> loads[i]]

\* the fetch of both models ends well: lines 171-177
LoadSucceeds ==
  \E id \in DOMAIN loads :
    /\ objectDetector' = TRUE
    /\ featureExtractor' = TRUE
    /\ isModelLoading' = FALSE
    /\ loads' = Without(id)
    /\ IF loads[id].promise = "pending"
       THEN Settle(id, "resolved", TRUE)
       ELSE /\ finished' = <<>>
            /\ UNCHANGED <<tasks, frameCount, previousFrame, previousSpacesRef>>
    /\ UNCHANGED <<modelLoadingPromise, modelLoadAttempts, lastFrameTime,
                   settings, now, source, regions, calls, call, firstCall, processedCounts, page,
                   loadsStarted, released>>

\* the fetch fails: lines 178-185
LoadFails ==
  \E id \in DOMAIN loads :
    /\ objectDetector' = FALSE
    /\ featureExtractor' = FALSE
    /\ isModelLoading' = FALSE
    /\ loads' = Without(id)
    /\ IF loads[id].promise = "pending"
       THEN Settle(id, "rejected", FALSE)
       ELSE /\ finished' = <<>>
            /\ UNCHANGED <<tasks, frameCount, previousFrame, previousSpacesRef>>
    /\ UNCHANGED <<modelLoadingPromise, modelLoadAttempts, lastFrameTime,
                   settings, now, source, regions, calls, call, firstCall, processedCounts, page,
                   loadsStarted, released>>

\* MODEL_LOAD_TIMEOUT passes first: the timer rejects the promise and the
\* fetch goes on (lines 134-137)
LoadTimesOut ==
  \E id \in DOMAIN loads :
    /\ loads[id].promise = "pending"
    /\ loads' = [loads EXCEPT ![id].promise = "rejected"]
    /\ Settle(id, "rejected", objectDetector /\ featureExtractor)
    /\ UNCHANGED <<objectDetector, featureExtractor, isModelLoading,
                   modelLoadingPromise, modelLoadAttempts, lastFrameTime,
                   settings, now, source, regions, calls, call, firstCall, processedCounts, page,
                   loadsStarted, released>>

\* the attempts are used, no model is loaded and no load is awaited still
AttemptsUsedUp ==
  /\ modelLoadAttempts >= MAX_MODEL_LOAD_ATTEMPTS
  /\ ~(objectDetector /\ featureExtractor)
  /\ (isModelLoading /\ modelLoadingPromise # 0)
       => loads[modelLoadingPromise].promise = "rejected"

\* the timer rejected the promise of the latest attempt, whose fetch goes on;
\* no model is loaded and attempts are left
TimedOutAttemptsLeft ==
  /\ isModelLoading /\ modelLoadingPromise # 0
  /\ loads[modelLoadingPromise].promise = "rejected"
  /\ ~(objectDetector /\ featureExtractor)
  /\ modelLoadAttempts < MAX_MODEL_LOAD_ATTEMPTS

\* detectParkingSpaces() from its call to its first await that waits
BeginDetect(srcKind, f, prevArg, dt, limit) ==
  LET t == now + dt
      enter == EnterLoadModels
      begun == [NoTask EXCEPT !.kind = srcKind, !.frame = f, !.prev = prevArg,
                              !.settings = settings]
      asks == [begun EXCEPT
                 !.on = enter.on, !.starter = enter.starter,
                 !.exhausted = AttemptsUsedUp,
                 !.retryDue = TimedOutAttemptsLeft,
                 !.loadFailed =
                    \/ enter.on = 0 /\ ~enter.result
                    \/ /\ enter.on # 0
                       /\ ~enter.starter
                       /\ loads[enter.on].promise = "rejected"]
  IN
  /\ calls < limit
  /\ calls' = calls + 1
  /\ now' = t
  /\ released' = FALSE
  /\ UNCHANGED <<objectDetector, featureExtractor, settings, source, regions,
                 call, firstCall, processedCounts, page>>
  /\ IF srcKind = "null"
     THEN /\ finished' = <<begun>>
          /\ UNCHANGED <<frameCount, lastFrameTime, previousFrame,
                         previousSpacesRef, isModelLoading, modelLoadingPromise,
                         modelLoadAttempts, loads, loadsStarted, tasks>>
     ELSE
     /\ lastFrameTime' = t
     /\ IF FrameSkipped(t - lastFrameTime, frameCount)
        THEN /\ finished' = <<[begun EXCEPT !.pc = "done", !.kind = "skipped",
                                            !.count = frameCount + 1,
                                            !.spaces = prevArg]>>
             /\ frameCount' = frameCount + 1
             /\ previousSpacesRef' = prevArg
             /\ UNCHANGED <<previousFrame, isModelLoading, modelLoadingPromise,
                            modelLoadAttempts, loads, loadsStarted, tasks>>
        ELSE
        IF enter.starter
        THEN /\ isModelLoading' = TRUE
             /\ modelLoadAttempts' = modelLoadAttempts + 1
             /\ modelLoadingPromise' = enter.on
             /\ loads' = [id \in DOMAIN loads \cup {enter.on} |->
                            IF id = enter.on THEN NewLoad ELSE loads[id]]
             /\ loadsStarted' = loadsStarted + 1
             /\ tasks' = Append(tasks, [asks EXCEPT !.pc = "load"])
             /\ finished' = <<>>
             /\ UNCHANGED <<frameCount, previousFrame, previousSpacesRef>>
        ELSE IF enter.on # 0 /\ loads[enter.on].promise = "pending"
        THEN /\ tasks' = Append(tasks, [asks EXCEPT !.pc = "load"])
             /\ finished' = <<>>
             /\ UNCHANGED <<frameCount, previousFrame, previousSpacesRef,
                            isModelLoading, modelLoadingPromise,
                            modelLoadAttempts, loads, loadsStarted>>
        ELSE \E step \in {AfterLoad(
                            asks,
                            IF enter.on = 0 THEN enter.result
                            ELSE LoadModelsReturns(
                                   FALSE, loads[enter.on].promise,
                                   objectDetector /\ featureExtractor),
                            frameCount, previousFrame,
                            objectDetector /\ featureExtractor)} :
               /\ tasks' = tasks \o StillSuspended(<<step.task>>)
               /\ finished' = Ended(<<step.task>>)
               /\ frameCount' = step.frameCount
               /\ previousFrame' = step.previousFrame
               /\ previousSpacesRef' = KeptSpaces(step.task, previousSpacesRef)
               /\ UNCHANGED <<isModelLoading, modelLoadingPromise,
                              modelLoadAttempts, loads, loadsStarted>>

\* the tasks but the k-th
Except(ts, k) == [i \in 1..(Len(ts) - 1) |-> IF i < k THEN ts[i] ELSE ts[i + 1]]

\* both oracles answer for every region that asked them: the call goes on
\* from the await of line 1020 to its return
OracleReturns(oracles) ==
  \E k \in 1..Len(tasks) :
    /\ tasks[k].pc = "oracle"
    /\ \E oracle \in [tasks[k].asked -> oracles] :
       \E canvas \in {CanvasSize(source.width, source.height)} :
       \E resp \in {[i \in 1..Len(tasks[k].heur) |->
                       IF i \in tasks[k].asked THEN oracle[i] ELSE NoOracle]} :
       \E outcome \in {[i \in 1..Len(tasks[k].heur) |->
                          IF tasks[k].verify[i]
                          THEN VerifyOutcome(tasks[k].present, tasks[k].heur[i],
                                             canvas, resp[i])
                          ELSE "none"]} :
       \E gated \in {[i \in 1..Len(tasks[k].heur) |->
                        IF tasks[k].verify[i]
                        THEN verifyWithModel(tasks[k].present, tasks[k].heur[i],
                                             canvas, resp[i])
                        ELSE tasks[k].heur[i]]} :
       \E spaces \in {applyEnhancedTemporalSmoothing(
                        gated, tasks[k].prev, settings.useTemporalSmoothing,
                        now)} :
         /\ finished' = <<[tasks[k] EXCEPT
                             !.pc = "done", !.outcome = outcome,
                             !.usedSmoothing = SmoothingRead(tasks[k].prev),
                             !.spaces = spaces]>>
         /\ previousSpacesRef' = spaces
    /\ tasks' = Except(tasks, k)
    /\ UNCHANGED <<objectDetector, featureExtractor, modelLoadAttempts,
                   frameCount, lastFrameTime, previousFrame, settings, now,
                   source, regions, calls, call, firstCall, processedCounts, page, isModelLoading,
                   modelLoadingPromise, loads, loadsStarted, released>>

\* cleanup() while loads are in flight: the fetches it forgets go on
cleanupDuringLoad ==
  /\ previousFrame # 0 \/ objectDetector \/ featureExtractor
       \/ modelLoadAttempts # 0 \/ isModelLoading
  /\ previousFrame' = DisposedSnapshot(previousFrame)
  /\ objectDetector' = FALSE
  /\ featureExtractor' = FALSE
  /\ isModelLoading' = FALSE
  /\ modelLoadingPromise' = 0
  /\ modelLoadAttempts' = 0
  /\ loadsStarted' = 0
  /\ released' = TRUE
  /\ finished' = <<>>
  /\ UNCHANGED <<frameCount, lastFrameTime, settings, now, source, regions,
                 previousSpacesRef, calls, call, firstCall, processedCounts, page, loads, tasks>>

\* updateSettings() between the steps of the calls
updateSettingsDuringCall ==
  \E newSettings \in { DefaultSettings,
                       [DefaultSettings EXCEPT !.useMotionDetection = FALSE,
                                               !.useTemporalSmoothing = FALSE,
                                               !.useAdaptiveVerification = FALSE] } :
    /\ newSettings # settings
    /\ tasks # <<>>
    /\ settings' = newSettings
    /\ finished' = <<>>
    /\ UNCHANGED <<objectDetector, featureExtractor, modelLoadAttempts,
                   frameCount, lastFrameTime, previousFrame, now, source,
                   regions, previousSpacesRef, calls, call, firstCall, processedCounts, page,
                   isModelLoading, modelLoadingPromise, loads, loadsStarted,
                   tasks, released>>

\* The state once the module is evaluated: the loadModels() call of its last
\* statement has started the first load and awaits it.
InitLoad ==
  /\ objectDetector = FALSE
  /\ featureExtractor = FALSE
  /\ modelLoadAttempts = 1
  /\ frameCount = 0
  /\ lastFrameTime = 0
  /\ previousFrame = 0
  /\ settings = DefaultSettings
  /\ now = 0
  /\ \E sc \in SessionScenarios : source = sc.source /\ regions = sc.regions
  /\ previousSpacesRef = <<>>
  /\ calls = 0
  /\ call = NoCall
  /\ firstCall = NoCall
  /\ processedCounts = <<>>
  /\ page = NoPage
  /\ isModelLoading = TRUE
  /\ modelLoadingPromise = 1
  /\ loads = [id \in {1} |-> NewLoad]
  /\ loadsStarted = 1
  /\ tasks = <<>>
  /\ finished = <<>>
  /\ released = FALSE

\* The loads: calls on one frame that pass no previous spaces, with the
\* loads succeeding, failing and timing out and cleanup() at any point.
DetectLoad == BeginDetect("live", 1, <<>>, 40, MaxLoadCalls)

OracleAnswersLoad == OracleReturns({OracleNothing})

NextLoad ==
  \/ DetectLoad
  \/ LoadSucceeds
  \/ LoadFails
  \/ LoadTimesOut
  \/ OracleAnswersLoad
  \/ cleanupDuringLoad

SpecLoad == InitLoad /\ [][NextLoad]_vars

\* The snapshot: calls on two frames that overlap while a load is awaited,
\* with cleanup() at any point.
MaxSnapshotCalls == 2

DetectSnapshot ==
  \E f \in 1..2 : BeginDetect("live", f, <<>>, 40, MaxSnapshotCalls)

OracleAnswersSnapshot == OracleReturns({OracleCar})

NextSnapshot ==
  \/ DetectSnapshot
  \/ LoadSucceeds
  \/ LoadFails
  \/ LoadTimesOut
  \/ OracleAnswersSnapshot
  \/ cleanupDuringLoad

SpecSnapshot == InitLoad /\ [][NextSnapshot]_vars

\* The calls: two frames, the caller passing its last result, the settings
\* changing while a call waits.
DetectSuspend ==
  \E srcKind \in {"live", "ended"}, f \in 1..2 :
    BeginDetect(srcKind, f, previousSpacesRef, 40, MaxTasks)

OracleAnswers == OracleReturns({OracleNothing, OracleCar})

LoadEnds == LoadSucceeds \/ LoadFails \/ LoadTimesOut

\* what a step of LoadEnds does to loads: a fetch ends, or the timer of a
\* pending promise fires
LoadProgress ==
  \E id \in DOMAIN loads :
    \/ loads' = Without(id)
    \/ /\ loads[id].promise = "pending"
       /\ loads' = [loads EXCEPT ![id].promise = "rejected"]

NextSuspend ==
  \/ DetectSuspend
  \/ LoadEnds
  \/ OracleAnswers
  \/ cleanupDuringLoad
  \/ updateSettingsDuringCall

\* A fetch ends sooner or later and the timer of MODEL_LOAD_TIMEOUT fires if it
\* has not; the calls that await the promise go on in the same step. Nothing
\* makes the caller call again, and nothing makes the oracles answer.
SpecSuspend == InitLoad /\ [][NextSuspend]_vars /\ WF_loads(LoadProgress)

(* ------------------------ the live-detection page ------------------- *)
\* The page in camera mode with regions applied. A click is handled and the
\* page rendered before any timer fires, so that isStreamingRef follows
\* isStreaming at once. page.interval tells whether detectionIntervalRef holds
\* a running interval, page.timers counts the setTimeout(runDetection, 500)
\* timers yet to fire, page.pending the detectParkingSpaces calls of
\* runDetection that have not settled, page.ready whether the camera's video
\* has current data.
MaxTimers == 3
MaxInFlight == 4

moduleVars == <<objectDetector, featureExtractor, modelLoadAttempts, frameCount,
                lastFrameTime, previousFrame, settings, now, source, regions,
                previousSpacesRef, calls, call, firstCall, isModelLoading,
                modelLoadingPromise, loads, loadsStarted, tasks, finished,
                released, processedCounts>>

\* runDetection() up to its await. The early returns pass the finally block,
\* which clears processingRef.
runDetection(p) ==
  IF ~p.isStreaming \/ p.processing THEN p
  ELSE IF ~p.ready THEN [p EXCEPT !.processing = FALSE]
  ELSE [p EXCEPT !.processing = TRUE, !.pending = @ + 1]

\* the Start button, shown while isStreaming is false
startDetection ==
  /\ ~page.isStreaming
  /\ page.timers < MaxTimers
  /\ page' = [page EXCEPT !.isStreaming = TRUE, !.timers = @ + 1,
                          !.interval = TRUE]
  /\ UNCHANGED moduleVars

\* the Stop button, shown while isStreaming is true
stopStream ==
  /\ page.isStreaming
  /\ page' = [page EXCEPT !.isStreaming = FALSE, !.interval = FALSE,
                          !.processing = FALSE]
  /\ UNCHANGED moduleVars

\* the camera's video gets or loses current data
CameraData ==
  /\ page' = [page EXCEPT !.ready = ~page.ready]
  /\ UNCHANGED moduleVars

\* the interval of detectionIntervalRef fires
IntervalTick ==
  /\ page.interval
  /\ page.pending < MaxInFlight
  /\ page' = runDetection(page)
  /\ page' # page
  /\ UNCHANGED moduleVars

\* a timer that startDetection() set fires
DelayedTick ==
  /\ page.timers > 0
  /\ page.pending < MaxInFlight
  /\ page' = runDetection([page EXCEPT !.timers = @ - 1])
  /\ UNCHANGED moduleVars

\* a detectParkingSpaces call of runDetection resolves or rejects: the
\* finally block clears processingRef
DetectionSettles ==
  /\ page.pending > 0
  /\ page' = [page EXCEPT !.pending = @ - 1, !.processing = FALSE]
  /\ UNCHANGED moduleVars

InitPage == InitWith(ChainScenarios)

NextPage ==
  \/ startDetection
  \/ stopStream
  \/ CameraData
  \/ IntervalTick
  \/ DelayedTick
  \/ DetectionSettles

SpecPage == InitPage /\ [][NextPage]_vars

(* ----------------------------- properties --------------------------- *)
\* the latest call returned a result
Resolved == call.kind \in {"processed", "skipped", "ended"}

\* the latest call went through the per-region pipeline
Processed == call.kind = "processed"

\* the latest call was smoothed against the spaces it was given
Smoothed ==
  Processed /\ Len(call.prev) # 0 /\ call.settings.useTemporalSmoothing

StabilityOf(space) == space.features.stabilityScore

\* C1: every space returned by a detectParkingSpaces call that resolves has a
\* confidence between 0 and 1, also after the verification merge and when the
\* space is returned without temporal smoothing.
ConfidenceInUnitInterval ==
  Resolved =>
    \A k \in 1..Len(call.spaces) :
      call.spaces[k].confidence >= 0 /\ call.spaces[k].confidence <= 10000

\* C2: when verification runs for a region and the detector reports a vehicle
\* box with best score s > 0.60, the merged space is occupied, has the class of
\* the best box as vehicleType and has confidence min(1, s * 1.2).
VerificationOverrideIsCapped ==
  Processed =>
    \A i \in 1..Len(call.gated) :
      (call.outcome[i] # "none" /\ Len(VehiclePredictions(call.resp[i].boxes)) > 0)
        => LET best == BestBox(VehiclePredictions(call.resp[i].boxes))
           IN  /\ call.gated[i].isOccupied
               /\ call.gated[i].vehicleType = best.class
               /\ call.gated[i].confidence = Min(10000, best.score * 120)

\* every oracle invocation of the calls made so far threw
OracleAlwaysThrew ==
  /\ \A i \in 1..Len(call.outcome) :
       OracleInvoked(call.outcome[i]) => call.outcome[i] = "threw"
  /\ \A i \in 1..Len(firstCall.outcome) :
       OracleInvoked(firstCall.outcome[i]) => firstCall.outcome[i] = "threw"

\* C3: with the oracle throwing on every invocation, every call that resolves
\* returns one space per valid region, and the verification gate hands back the
\* heuristic space of a region unmodified, whatever happens to other regions.
ThrowingOracleKeepsHeuristics ==
  (Resolved /\ OracleAlwaysThrew) =>
    /\ Len(call.spaces) = Len(ValidRegions(regions))
    /\ \A i \in 1..Len(call.gated) :
         call.outcome[i] = "threw" => call.gated[i] = call.heur[i]

\* C4: every space returned has a region whose points all lie in [0,1] x [0,1],
\* whether the input regions were normalized or in pixels.
OutputRegionsNormalized ==
  Resolved =>
    \A k \in 1..Len(call.spaces) :
      PointsNormalized(call.spaces[k].region.points)

\* C5: a region supplied with all its points in [0,1] comes back in its output
\* space with the same points in the same order.
NormalizedRegionsRoundTrip ==
  Resolved =>
    \A k \in 1..Len(call.spaces) :
      LET given == ValidRegions(regions)[call.spaces[k].id + 1]
      IN  PointsNormalized(given.points)
            => call.spaces[k].region.points = given.points

\* a processed call on a source smaller than the processing resolution whose
\* regions are all normalized, so that scaling changes every point
NormalizedRegionsReturned ==
  /\ Processed
  /\ Len(call.spaces) = 2
  /\ source # CanvasSize(source.width, source.height)
  /\ \A k \in 1..Len(call.spaces) :
       LET given == ValidRegions(regions)[call.spaces[k].id + 1]
       IN  /\ PointsNormalized(given.points)
           /\ call.spaces[k].region.points = given.points
           /\ ScalePoints(given.points, TRUE,
                          CanvasSize(source.width, source.height),
                          source.width, source.height) # given.points

\* the region at position i of the valid regions is under 20px in processing pixels
IsSmallRegion(i) ==
  LET valid == ValidRegions(regions)
      canvas == CanvasSize(source.width, source.height)
  IN  TooSmall(getRegionBounds(
        ScalePoints(valid[i].points, AreRegionsNormalized(valid), canvas,
                    source.width, source.height)))

\* C6: the space returned for a region under 20px is vacant with confidence 0
\* and stabilityScore 0.5, and no oracle is asked about it, in every call.
SmallRegionsStayEmpty ==
  Processed =>
    \A i \in 1..Len(call.spaces) :
      IsSmallRegion(i) =>
        /\ ~call.spaces[i].isOccupied
        /\ call.spaces[i].confidence = 0
        /\ StabilityOf(call.spaces[i]) = 50
        /\ ~OracleInvoked(call.outcome[i])

\* shadowScore < 0.45, for a score in 4500ths
ShadowScoreBelowThreshold(space) == space.features.shadowScore * 100 < 45 * 4500

\* C7: a region whose shadowScore is below 0.45 is classified vacant by the
\* heuristic classifier, whatever its occupancy score, dynamic threshold,
\* motion score and stability score.
ShadowVeto ==
  Processed =>
    \A i \in 1..Len(call.heur) :
      (call.path[i] = "heuristic" /\ ShadowScoreBelowThreshold(call.heur[i]))
        => ~call.heur[i].isOccupied

\* a shadowed region whose occupancy score is above the dynamic threshold
ShadowVetoOverridesScore ==
  /\ Processed
  /\ \E i \in 1..Len(call.heur) :
       /\ call.path[i] = "heuristic"
       /\ ShadowScoreBelowThreshold(call.heur[i])
       /\ OccupancyScore(CropOf(call.frame, i),
                         call.heur[i].features.motionScore,
                         StabilityOf(call.heur[i]))
            > calculateDynamicThreshold(CropOf(call.frame, i))
       /\ ~call.heur[i].isOccupied

StabilityTakenOver(before) ==
  IF StabilityOf(before) = 0 THEN 50 ELSE StabilityOf(before)

\* the stability after the verification gate of the second call
StabilityAfterGate(outcome, stability) ==
  CASE outcome = "detected" -> Min(100, stability + 20)
    [] outcome = "classified" -> Min(100, stability + 10)
    [] outcome = "unconfirmed" -> Max(0, stability - 10)
    [] OTHER -> stability

BoundedHistory ==
  Resolved =>
    \A k \in 1..Len(call.spaces) :
      /\ Len(call.spaces[k].stateHistory) <= 5
      /\ (Smoothed /\ HasSpace(call.prev, call.spaces[k].id)) =>
           LET carried == FindSpace(call.prev, call.spaces[k].id).stateHistory
               state == call.gated[k].isOccupied
           IN  call.spaces[k].stateHistory =
                 IF Len(carried) + 1 >= 5
                 THEN Tail(carried) \o <<state>>
                 ELSE carried \o <<state>>

\* the oldest entry of a full history has been dropped
OldestEntryEvicted ==
  /\ Smoothed
  /\ \E k \in 1..Len(call.spaces) :
       /\ HasSpace(call.prev, call.spaces[k].id)
       /\ Len(FindSpace(call.prev, call.spaces[k].id).stateHistory) = 4
       /\ Len(call.spaces[k].stateHistory) = 4
       /\ FindSpace(call.prev, call.spaces[k].id).stateHistory[1]
            # FindSpace(call.prev, call.spaces[k].id).stateHistory[2]

\* what C10 compares of two spaces
SameVerdict(a, b) ==
  /\ a.isOccupied = b.isOccupied
  /\ a.confidence = b.confidence
  /\ a.features = b.features

\* C10: with model verification disabled, two calls given the same frame,
\* regions and previousSpaces return spaces with the same isOccupied,
\* confidence and features, whatever state earlier calls left in the module.
DeterministicUnderFixedInput ==
  ( /\ firstCall.kind = "processed"
    /\ call.kind \in {"processed", "skipped"}
    /\ ~firstCall.settings.useModelVerification
    /\ ~call.settings.useModelVerification
    /\ call.frame = firstCall.frame
    /\ call.prev = firstCall.prev )
  => /\ Len(call.spaces) = Len(firstCall.spaces)
     /\ \A k \in 1..Len(call.spaces) :
          k <= Len(firstCall.spaces)
            => SameVerdict(call.spaces[k], firstCall.spaces[k])

\* C15: a call on a video whose playback has ended rejects when previousSpaces
\* is empty, and resolves with exactly the caller's previousSpaces when it is not.
EndedVideoNeedsPriorResult ==
  call.kind = "ended" => (Len(call.prev) # 0 /\ call.spaces = call.prev)

\* C16: a region is processed only if it has a string id, at least 3 points and
\* the type rectangle or quadrilateral; any other region is dropped and appears
\* in no returned space.
OnlyWellFormedRegionsProcessed ==
  Resolved =>
    \A k \in 1..Len(call.spaces) :
      /\ call.spaces[k].region.id # ""
      /\ Len(call.spaces[k].region.points) >= 3
      /\ call.spaces[k].region.type \in {"rectangle", "quadrilateral"}

\* C17: the id of each returned space is the index of its region in the
\* caller's region list, also when other regions of the list are dropped.
IdsAreInputIndexes ==
  Processed =>
    \A k \in 1..Len(call.spaces) :
      /\ call.spaces[k].id + 1 <= Len(regions)
      /\ regions[call.spaces[k].id + 1] = call.spaces[k].region

\* C19: with MAX_FRAME_SKIP = 0 the frame-skip return is never taken: every
\* call with a source goes on to process the frame.
FrameSkipNeverTaken == call.kind # "skipped"

\* the calls in flight and those that ended in the latest step
Calls == tasks \o finished

\* C11: no more than MAX_MODEL_LOAD_ATTEMPTS loads are started between the
\* module load or a cleanup() and the next cleanup(); a call whose loadModels()
\* finds the attempts used up, no model and no load left to wait for starts no
\* load, waits for none and is told false.
BoundedRetry ==
  /\ loadsStarted <= MAX_MODEL_LOAD_ATTEMPTS
  /\ \A k \in 1..Len(Calls) :
       Calls[k].exhausted =>
         /\ ~Calls[k].starter
         /\ Calls[k].pc # "load"
         /\ ~Calls[k].loaded

ExhaustedCallReturned ==
  /\ loadsStarted = MAX_MODEL_LOAD_ATTEMPTS
  /\ \E k \in 1..Len(finished) :
       finished[k].exhausted /\ finished[k].pc = "done"

\* C12: at any time at most one model load is in flight, whatever the order of
\* the module-load call, the detectParkingSpaces calls and cleanup().
OneLoadInFlight == Cardinality(DOMAIN loads) <= 1

\* C13: from the return of cleanup() until the next call is made, both oracle
\* singletons and the previous-frame snapshot are null, also when a load or a
\* call was in flight when cleanup() ran.
ReleasedUntilNextCall ==
  released => (~objectDetector /\ ~featureExtractor /\ previousFrame = 0)

\* C14: a call whose loadModels() fails (attempts used up, load error or
\* timeout) is not rejected for it: it asks neither oracle and resolves with
\* one heuristic result for each valid region.
LoadFailureIsNotFatal ==
  \A k \in 1..Len(Calls) :
    Calls[k].loadFailed =>
      /\ Calls[k].pc # "oracle"
      /\ Calls[k].asked = {}
      /\ Calls[k].pc = "rejected" => Calls[k].kind = "nodims"
      /\ Calls[k].kind = "processed" =>
           /\ Calls[k].pc = "done"
           /\ Len(Calls[k].spaces) = Len(ValidRegions(regions))
           /\ \A i \in 1..Len(Calls[k].outcome) :
                ~OracleInvoked(Calls[k].outcome[i])
           /\ Len(Calls[k].prev) = 0 => Calls[k].spaces = Calls[k].heur

\* the load timed out for the call while both singletons were set
FailedLoadWithModelsPresent ==
  \E k \in 1..Len(finished) :
    /\ finished[k].loadFailed
    /\ finished[k].present
    /\ finished[k].pc = "done"
    /\ Len(finished[k].spaces) > 0

\* C18: a call treats motion detection, adaptive verification and temporal
\* smoothing as the settings stood when it was made, whatever updateSettings()
\* does while it is suspended.
SettingsReadOncePerCall ==
  \A k \in 1..Len(Calls) :
    /\ Calls[k].usedMotion \in
         {"unread", Flag(Calls[k].settings.useMotionDetection)}
    /\ Calls[k].usedAdaptive \in
         {"unread", Flag(Calls[k].settings.useAdaptiveVerification)}
    /\ Calls[k].usedSmoothing \in
         {"unread", Flag(Calls[k].settings.useTemporalSmoothing)}

\* a call suspended at the oracles
AwaitsOracle(k) == k <= Len(tasks) /\ tasks[k].pc = "oracle"

\* C20: a detectParkingSpaces call that waits for the oracles eventually goes
\* on to its return, also when the oracles never answer.
OracleWaitEnds ==
  (\E k \in 1..MaxTasks : AwaitsOracle(k)) ~> (\A k \in 1..MaxTasks : ~AwaitsOracle(k))

\* C22: while settings.useModelVerification is false, no call asks the
\* detector or the classifier about any region.
NoOracleWhenVerificationDisabled ==
  (Processed /\ ~call.settings.useModelVerification) =>
    \A i \in 1..Len(call.outcome) : ~OracleInvoked(call.outcome[i])


\* C24: the heuristic classifier of a region works with the stabilityScore of
\* the previous space that bears the region's id, whatever its value, and with
\* 0.5 only when previousSpaces holds no such space.
StabilityCarriedOver ==
  Processed =>
    \A i \in 1..Len(call.heur) :
      call.path[i] = "heuristic" =>
        StabilityOf(call.heur[i]) =
          IF HasSpace(call.prev, i - 1)
          THEN StabilityOf(FindSpace(call.prev, i - 1))
          ELSE 50


\* C25: in a call that is given the spaces of the call before, a space whose
\* final isOccupied equals that of the previous space with its id keeps that
\* space's lastStateChange, and a space whose final state differs bears the
\* time of the call, with temporal smoothing on or off.
LastStateChangeIsLastFlip ==
  (Resolved /\ Len(call.prev) # 0) =>
    \A k \in 1..Len(call.spaces) :
      HasSpace(call.prev, call.spaces[k].id) =>
        LET before == FindSpace(call.prev, call.spaces[k].id)
        IN  call.spaces[k].lastStateChange =
              IF call.spaces[k].isOccupied = before.isOccupied
              THEN before.lastStateChange
              ELSE now


\* the last n provisional states recorded for a space all equal its final state
HeldFor(space, n) ==
  /\ Len(space.stateHistory) >= n
  /\ \A j \in (Len(space.stateHistory) - n + 1)..Len(space.stateHistory) :
       space.stateHistory[j] = space.isOccupied

\* C26: in a smoothed call, a region whose provisional state was its final
\* state s in each of the 3 smoothed calls before and is the opposite of s now
\* is still returned with state s, from occupied and from vacant.
FlickerSuppressed ==
  Smoothed =>
    \A k \in 1..Len(call.spaces) :
      HasSpace(call.prev, call.spaces[k].id) =>
        LET before == FindSpace(call.prev, call.spaces[k].id)
        IN  (HeldFor(before, 3) /\ call.gated[k].isOccupied # before.isOccupied)
              => call.spaces[k].isOccupied = before.isOccupied


\* the provisional states of the 4 latest calls are all v: either the window
\* of the history holds 4 entries equal to v, or the call is the fourth of the
\* session, the first one was not smoothed and gave v as well
ProvisionalFourTimes(k, v) ==
  LET h == call.spaces[k].stateHistory
  IN  /\ call.gated[k].isOccupied = v
      /\ \A j \in 1..Len(h) : h[j] = v
      /\ \/ Len(h) = 4
         \/ /\ Len(h) = 3
            /\ calls = 4
            /\ firstCall.gated[k].isOccupied = v

PeriodicTrigger(count) == count % MODEL_VERIFICATION_INTERVAL = 0

\* C23: with the models loaded and adaptive verification on, among any 3
\* consecutive calls that reach the per-region pipeline exactly one finds the
\* periodic trigger satisfied, whatever calls that skip the frame, find the
\* video ended or are rejected come in between.
PeriodicEveryThirdProcessed ==
  (/\ Len(processedCounts) = MODEL_VERIFICATION_INTERVAL
   /\ firstCall.loaded
   /\ settings.useAdaptiveVerification) =>
    Cardinality({j \in 1..Len(processedCounts) :
                   PeriodicTrigger(processedCounts[j])}) = 1


\* C21: the snapshot is read, disposed and replaced in one step of one call,
\* and cleanup() disposes it and drops it in one step: under overlapping calls
\* and cleanup() in between, previousFrame never refers to a disposed snapshot
\* and no call computes its motion score from one.
SnapshotNeverReadDisposed ==
  /\ previousFrame >= 0
  /\ \A k \in 1..Len(tasks) : ~tasks[k].readDisposed
  /\ \A k \in 1..Len(finished) : ~finished[k].readDisposed

\* two calls on different frames waited for one load; once it ended each read
\* and replaced the snapshot in turn, and the frame of the second is kept
OverlappingCallsShareSnapshot ==
  /\ Len(finished) = 2
  /\ finished[1].kind = "processed" /\ finished[2].kind = "processed"
  /\ finished[1].on # 0 /\ finished[2].on = finished[1].on
  /\ finished[2].usedMotion = "on"
  /\ finished[2].frame # finished[1].frame
  /\ previousFrame = finished[2].frame

\* C27: a call that gets to loadModels() after a load attempt timed out, with
\* fewer than 3 attempts used and no model loaded, starts a new load attempt,
\* also while the fetch of the attempt that timed out has not ended.
TimedOutLoadRetried ==
  /\ \A k \in 1..Len(tasks) : tasks[k].retryDue => tasks[k].starter
  /\ \A k \in 1..Len(finished) :
       (finished[k].retryDue /\ finished[k].passedLoad) => finished[k].starter


\* the rectangle verifyWithModel would crop from the points the normalizer
\* scaled for feature extraction: its bounds rounded outward and cut to the
\* canvas in the same way
FeatureCrop(i, canvas) ==
  LET valid == ValidRegions(regions)
      bounds == getRegionBounds(
                  ScalePoints(valid[i].points, AreRegionsNormalized(valid),
                              canvas, source.width, source.height))
      minX == Max(0, Floor100(bounds.minX))
      minY == Max(0, Floor100(bounds.minY))
      maxX == Min(canvas.width, Ceil100(bounds.maxX))
      maxY == Min(canvas.height, Ceil100(bounds.maxY))
  IN  [minX |-> minX, minY |-> minY, width |-> maxX - minX, height |-> maxY - minY]

\* C29: for each region that verifyWithModel gets to crop, the rectangle it
\* crops for the oracles is the one feature extraction used (rounded outward to
\* whole pixels), whether the region list is all normalized, all in pixels or
\* mixed and whatever the size of the source.
VerificationCropsFeatureRectangle ==
  Processed =>
    \A i \in 1..Len(call.outcome) :
      call.outcome[i] \notin {"none", "nomodel"} =>
        VerifyCrop(call.heur[i].region.points,
                   CanvasSize(source.width, source.height))
          = FeatureCrop(i, CanvasSize(source.width, source.height))


\* C30: at most one detectParkingSpaces call issued by runDetection is in
\* flight at any time, under every interleaving of interval ticks, the delayed
\* first tick, stopStream and startDetection.
OneDetectionInFlight == page.pending <= 1

=============================================================================
